---- MODULE Spec2Model ----
(***************************************************************************)
(* Model of common/post.go of postmanq: Timeout.Init, the                  *)
(* DelayedBindingType ladder, MailMessage.Error and ReturnMail.            *)
(*                                                                         *)
(* A Go string is modelled as a sequence of one-character strings.         *)
(* A time.Duration is modelled in milliseconds (TLC integers are 32 bit,   *)
(* nanoseconds do not fit); only comparison with zero and assignment of    *)
(* the defaults matter to Timeout.Init.                                    *)
(***************************************************************************)
EXTENDS Integers, Sequences, FiniteSets, TLC

\* ---------------------------------------------------------------- bounds
\* longest error text handed to ReturnMail in Spec
MaxErrLen == 2
\* longest error text handed to ReturnMail in FairSpec
MaxFairLen == 1
\* longest error text handed to ReturnMail in ClassifySpec
MaxTextLen == 3
\* most calls of Timeout.Init on one value in TimeoutSpec
MaxInits == 2
\* longest error text handed to ReturnMail in ConcurrentSpec
MaxConcLen == 1
\* longest address handed to getHostnameFromEmail in AddressSpec
MaxAddrLen == 6
\* longest text after "a@a" of an address of AddressSpec
MaxTailLen == 6
\* most calls of MailMessage.Init on one message in MessageSpec
MaxMessageInits == 1
\* latest reading of time.Now in MessageSpec
MaxNow == 2

\* ------------------------------------------------------------- alphabets
Space == " "
Tab == "\t"
Newline == "\n"
\* characters of the error texts of Spec and FairSpec
ErrChars == {"5", "a", Space}
\* characters of the error texts of ClassifySpec
TextChars == {"0", "5", "a", Space, Tab, Newline}

\* characters of the addresses of AddressSpec
AddrChars == {"a", "5", ".", "-", "_", "@"}

Texts(chars, n) == UNION {[1..k -> chars] : k \in 0..n}

\* An error value and a *MailError are modelled as sequences of at most one
\* element: Nil is the nil value, <<x>> a non-nil value holding x.
Nil == <<>>

\* ------------------------------------------------- strings.Split(s, " ")
\* index of the first occurrence of sep in s at or after i, 0 when none
RECURSIVE Index(_, _, _)
Index(s, sep, i) ==
    IF i > Len(s) THEN 0
    ELSE IF s[i] = sep THEN i
    ELSE Index(s, sep, i + 1)

\* strings.Split with a one-character separator: always at least one part
RECURSIVE Split(_, _)
Split(s, sep) ==
    LET i == Index(s, sep, 1) IN
    IF i = 0 THEN <<s>>
    ELSE <<SubSeq(s, 1, i - 1)>> \o Split(SubSeq(s, i + 1, Len(s)), sep)

\* ------------------------------------------------------ strings.TrimSpace
\* the white space characters strings.TrimSpace removes (ASCII ones)
IsSpace(c) == c \in {Space, Tab, Newline, "\r", "\f"}

RECURSIVE TrimLeft(_)
TrimLeft(s) ==
    IF s # <<>> /\ IsSpace(Head(s)) THEN TrimLeft(Tail(s)) ELSE s

RECURSIVE TrimRight(_)
TrimRight(s) ==
    IF s # <<>> /\ IsSpace(s[Len(s)]) THEN TrimRight(SubSeq(s, 1, Len(s) - 1)) ELSE s

TrimSpace(s) == TrimRight(TrimLeft(s))

\* ----------------------------------------------------------- strconv.Atoi
IsDigit(c) == c \in {"0", "1", "2", "3", "4", "5", "6", "7", "8", "9"}

DigitValue(c) ==
    CASE c = "0" -> 0 [] c = "1" -> 1 [] c = "2" -> 2 [] c = "3" -> 3
      [] c = "4" -> 4 [] c = "5" -> 5 [] c = "6" -> 6 [] c = "7" -> 7
      [] c = "8" -> 8 [] c = "9" -> 9

\* value of a digit string, left to right, acc the value so far
RECURSIVE ParseDigits(_, _)
ParseDigits(s, acc) ==
    IF s = <<>> THEN acc ELSE ParseDigits(Tail(s), acc * 10 + DigitValue(Head(s)))

\* strconv.Atoi: an optional sign, then one or more decimal digits;
\* [e |-> TRUE] is a non-nil error
Atoi(s) ==
    LET signed == s # <<>> /\ Head(s) \in {"+", "-"}
        digits == IF signed THEN Tail(s) ELSE s
    IN  IF digits = <<>> \/ \E i \in 1..Len(digits) : ~IsDigit(digits[i])
        THEN [e |-> TRUE, code |-> 0]
        ELSE [e |-> FALSE,
              code |-> IF signed /\ Head(s) = "-"
                       THEN 0 - ParseDigits(digits, 0)
                       ELSE ParseDigits(digits, 0)]

\* --------------------------------------------------------------- MailError
MailError(message, code) == [Message |-> message, Code |-> code]

\* AttachError passing parts[0] to Atoi untrimmed
AttachErrorNoTrim(error, e) ==
    IF e # Nil
    THEN LET errorMessage == e[1]
             parts == Split(errorMessage, Space)
         IN  IF Len(parts) > 0
             THEN LET r == Atoi(parts[1])
                  IN  IF ~r.e THEN <<MailError(errorMessage, r.code)>> ELSE error
             ELSE error
    ELSE error

\* AttachError creating the MailError without looking at Atoi's error
AttachErrorUnchecked(error, e) ==
    IF e # Nil
    THEN LET errorMessage == e[1]
             parts == Split(errorMessage, Space)
         IN  IF Len(parts) > 0
             THEN LET r == Atoi(TrimSpace(parts[1]))
                  IN  <<MailError(errorMessage, r.code)>>
             ELSE error
    ELSE error

\* AttachError assigning only when the message carries no error yet
AttachErrorKeepFirst(error, e) ==
    IF e # Nil /\ error = Nil
    THEN LET errorMessage == e[1]
             parts == Split(errorMessage, Space)
         IN  IF Len(parts) > 0
             THEN LET r == Atoi(TrimSpace(parts[1]))
                  IN  IF ~r.e THEN <<MailError(errorMessage, r.code)>> ELSE error
             ELSE error
    ELSE error

\* AttachError assigning nil when the text has no code
AttachErrorClearing(error, e) ==
    IF e # Nil
    THEN LET errorMessage == e[1]
             parts == Split(errorMessage, Space)
         IN  IF Len(parts) > 0
             THEN LET r == Atoi(TrimSpace(parts[1]))
                  IN  IF ~r.e THEN <<MailError(errorMessage, r.code)>> ELSE Nil
             ELSE error
    ELSE error

\* AttachError assigning nil when err is nil
AttachErrorNilClears(error, e) ==
    IF e # Nil
    THEN LET errorMessage == e[1]
             parts == Split(errorMessage, Space)
         IN  IF Len(parts) > 0
             THEN LET r == Atoi(TrimSpace(parts[1]))
                  IN  IF ~r.e THEN <<MailError(errorMessage, r.code)>> ELSE error
             ELSE error
    ELSE Nil

\* ReturnMail lines 141-153: the value of event.Message.Error after the
\* classification block, given its value before and the err argument
AttachError(error, e) ==
    IF e # Nil
    THEN LET errorMessage == e[1]
             parts == Split(errorMessage, Space)
         IN  IF Len(parts) > 0
             THEN LET r == Atoi(TrimSpace(parts[1]))
                  IN  IF ~r.e THEN <<MailError(errorMessage, r.code)>> ELSE error
             ELSE error
    ELSE error

\* HasWorker without the check of Client.Worker
HasWorkerUnchecked(c) == c # "nilClient"

\* ReturnMail lines 156-157: Reset is called when Client and Worker are set
HasWorker(c) == c # "nilClient" /\ c # "nilWorker"

\* SendEventResult values
DelaySendEventResult == "DelaySendEventResult"
ErrorSendEventResult == "ErrorSendEventResult"

\* Verdicts with the else branch left out
VerdictsNoElse(error) ==
    IF error = Nil THEN <<DelaySendEventResult>> ELSE <<>>

\* Verdicts with the second send outside the else
VerdictsFallThrough(error) ==
    IF error = Nil THEN <<DelaySendEventResult, ErrorSendEventResult>>
    ELSE <<ErrorSendEventResult>>

\* Verdicts with the condition inverted
VerdictsInverted(error) ==
    IF error # Nil THEN <<DelaySendEventResult>> ELSE <<ErrorSendEventResult>>

\* ReturnMail lines 164-168: the sends on event.Result, in order
Verdicts(error) ==
    IF error = Nil THEN <<DelaySendEventResult>> ELSE <<ErrorSendEventResult>>

\* ------------------------------------------------------ DelayedBindingType
UnknownDelayedBinding == 0
SecondDelayedBinding == 1
ThirtySecondDelayedBinding == 2
MinuteDelayedBinding == 3
FiveMinutesDelayedBinding == 4
TenMinutesDelayedBinding == 5
TwentyMinutesDelayedBinding == 6
\* ThirtyMinutesDelayedBinding given the value of the tier after it
ThirtyMinutesMisnumbered == TwentyMinutesDelayedBinding + 2
ThirtyMinutesDelayedBinding == 7
FortyMinutesDelayedBinding == 8
FiftyMinutesDelayedBinding == 9
HourDelayedBinding == 10
SixHoursDelayedBinding == 11
DayDelayedBinding == 12
NotSendDelayedBinding == 13

\* the scheduler's step on a retry-with-delay verdict
NextBinding(b) == b + 1

\* ------------------------------------------------------------------ Timeout
Millisecond == 1
Second == 1000 * Millisecond
Minute == 60 * Second

TimeoutFields == {"Sleep", "Waiting", "Connection", "Hello", "Mail", "Rcpt", "Data"}

\* a zero field gets def, any other value stays
OrDefault(v, def) == IF v = 0 THEN def ELSE v

\* TimeoutInit with the default of Mail copied to Data
TimeoutInitCopied(t) ==
    [Sleep      |-> OrDefault(t.Sleep, Second),
     Waiting    |-> OrDefault(t.Waiting, 30 * Second),
     Connection |-> OrDefault(t.Connection, 5 * Minute),
     Hello      |-> OrDefault(t.Hello, 5 * Minute),
     Mail       |-> OrDefault(t.Mail, 5 * Minute),
     Rcpt       |-> OrDefault(t.Rcpt, 5 * Minute),
     Data       |-> OrDefault(t.Data, 5 * Minute)]

\* Timeout.Init, lines 31-53
TimeoutInit(t) ==
    [Sleep      |-> OrDefault(t.Sleep, Second),
     Waiting    |-> OrDefault(t.Waiting, 30 * Second),
     Connection |-> OrDefault(t.Connection, 5 * Minute),
     Hello      |-> OrDefault(t.Hello, 5 * Minute),
     Mail       |-> OrDefault(t.Mail, 5 * Minute),
     Rcpt       |-> OrDefault(t.Rcpt, 5 * Minute),
     Data       |-> OrDefault(t.Data, 10 * Minute)]

ZeroTimeout == [f \in TimeoutFields |-> 0]

\* -------------------------------------------------------------- EmailRegexp
\* the class \w of the regular expression: letters, digits and underscore
Letters ==
    {"a", "b", "c", "d", "e", "f", "g", "h", "i", "j", "k", "l", "m",
     "n", "o", "p", "q", "r", "s", "t", "u", "v", "w", "x", "y", "z",
     "A", "B", "C", "D", "E", "F", "G", "H", "I", "J", "K", "L", "M",
     "N", "O", "P", "Q", "R", "S", "T", "U", "V", "W", "X", "Y", "Z"}

IsWord(c) == c \in Letters \/ IsDigit(c) \/ c = "_"

\* [\w\d\.\_\%\+\-]
IsLocalChar(c) == IsWord(c) \/ c \in {".", "%", "+", "-"}

\* [\w\d\.\-]
IsDomainChar(c) == IsWord(c) \/ c \in {".", "-"}

\* EmailRegexp matches s with its "@" at i and the dot of \.\w{2,4}$ at j
MatchesAt(s, i, j) ==
    /\ 1 < i
    /\ \A k \in 1..(i - 1) : IsLocalChar(s[k])
    /\ s[i] = "@"
    /\ i + 1 < j
    /\ \A k \in (i + 1)..(j - 1) : IsDomainChar(s[k])
    /\ s[j] = "."
    /\ Len(s) - j \in 2..4
    /\ \A k \in (j + 1)..Len(s) : IsWord(s[k])

\* EmailRegexp.FindAllStringSubmatch(email, -1): the pattern is anchored at
\* both ends, so there is at most one match; a match is <<text, group 1>>
FindAllStringSubmatch(email) ==
    LET at == {i \in 1..Len(email) : \E j \in 1..Len(email) : MatchesAt(email, i, j)}
    IN  IF at = {} THEN <<>>
        ELSE LET i == CHOOSE k \in at : TRUE
             IN  << <<email, SubSeq(email, i + 1, Len(email))>> >>

InvalidAddress == "invalid email address"
NoError == "nil"

\* getHostnameFromEmail, lines 128-135
getHostnameFromEmail(email) ==
    LET matches == FindAllStringSubmatch(email)
    IN  IF Len(matches) = 1 /\ Len(matches[1]) = 2
        THEN [hostname |-> matches[1][2], err |-> NoError]
        ELSE [hostname |-> <<>>, err |-> InvalidAddress]

\* InitMessage giving up at the first invalid address
InitMessageFailFast(m, t1, t2) ==
    LET from == getHostnameFromEmail(m.Envelope)
        to == getHostnameFromEmail(m.Recipient)
    IN  IF from.err # NoError
        THEN [m EXCEPT !.Id = t1, !.CreatedDate = t2]
        ELSE [m EXCEPT !.Id = t1,
                       !.CreatedDate = t2,
                       !.HostnameFrom = from.hostname,
                       !.HostnameTo = IF to.err = NoError THEN to.hostname ELSE @]

\* MailMessage.Init, lines 115-125, with t1 and t2 the two readings of time.Now
InitMessage(m, t1, t2) ==
    LET from == getHostnameFromEmail(m.Envelope)
        to == getHostnameFromEmail(m.Recipient)
    IN  [m EXCEPT !.Id = t1,
                  !.CreatedDate = t2,
                  !.HostnameFrom = IF from.err = NoError THEN from.hostname ELSE @,
                  !.HostnameTo = IF to.err = NoError THEN to.hostname ELSE @]

\* a MailMessage as decoded from the queue, before Init: the fields tagged
\* json:"-" are zero
RawMessage(envelope, recipient, body) ==
    [Id |-> 0, Envelope |-> envelope, Recipient |-> recipient, Body |-> body,
     HostnameFrom |-> <<>>, HostnameTo |-> <<>>, CreatedDate |-> 0]

\* the message the failed attempts of Spec are about
QueuedMessage ==
    InitMessage(RawMessage(<<"a", "@", "x", ".", "c", "o", "m">>,
                           <<"b", "@", "y", ".", "o", "r", "g">>,
                           <<"h", "i">>), 1, 2)

\* -------------------------------------------------------------------- state
VARIABLES
    pc,           \* position of the worker inside ReturnMail
    err,          \* the err argument of the running call
    Client,       \* event.Client: nilClient, nilWorker or worker
    Error,        \* event.Message.Error: Nil or a MailError
    BindingType,  \* event.Message.BindingType
    resets,       \* calls of event.Client.Worker.Reset for this event
    pending,      \* sends on event.Result the call has still to make
    sent,         \* values delivered on event.Result for this event
    requester,    \* the receiver of event.Result
    place,        \* where the message is: new, attempt, delayed, failure, dead
    entryError,   \* Message.Error when the running call was entered
    msg,          \* the other fields of event.Message
    msgOrig,      \* msg before MailMessage.Init
    msgInits,     \* calls of MailMessage.Init on msg
    email,        \* the argument of getHostnameFromEmail
    lookup,       \* the result of getHostnameFromEmail(email), <<>> before the call
    events,       \* per worker of ConcurrentSpec: its call and its event
    timeout,      \* a Timeout value
    timeoutOrig,  \* the Timeout value as configured
    inits         \* calls of Timeout.Init on timeout

vars == <<pc, err, Client, Error, BindingType, resets, pending, sent,
          requester, place, entryError, msg, msgOrig, msgInits, email, lookup,
          events, timeout, timeoutOrig, inits>>

\* the state of the address parser and of MailMessage.Init
otherVars == <<msgOrig, msgInits, email, lookup, events>>

mailVars == <<pc, err, Client, Error, BindingType, resets, pending, sent,
              requester, place, entryError, msg, otherVars>>

Clients == {"nilClient", "nilWorker", "worker"}

\* the workers of ConcurrentSpec, each with an event of its own
Workers == {"w1", "w2"}

\* a worker outside ReturnMail, its event with a fresh message
IdleEvent ==
    [pc |-> "idle", err |-> Nil, Client |-> "nilClient", Error |-> Nil,
     resets |-> 0, pending |-> <<>>, sent |-> <<>>, requester |-> "idle",
     entryError |-> Nil]

\* a worker outside ReturnMail, its event with a message that carries the
\* error of an earlier attempt
CarriedEvent ==
    [IdleEvent EXCEPT !.Error = <<MailError(<<"5">>, 5)>>,
                      !.entryError = <<MailError(<<"5">>, 5)>>]

CallInit ==
    /\ pc = "idle"
    /\ err = Nil
    /\ Client = "nilClient"
    /\ Error = Nil
    /\ BindingType = UnknownDelayedBinding
    /\ resets = 0
    /\ pending = <<>>
    /\ sent = <<>>
    /\ requester = "idle"
    /\ place = "new"
    /\ entryError = Nil

EventInit ==
    /\ CallInit
    /\ events = [w \in Workers |-> IdleEvent]

MailInit ==
    /\ EventInit
    /\ msg = QueuedMessage
    /\ msgOrig = QueuedMessage
    /\ msgInits = 1
    /\ email = <<>>
    /\ lookup = <<>>

Init ==
    /\ MailInit
    /\ timeout = ZeroTimeout
    /\ timeoutOrig = ZeroTimeout
    /\ inits = 0

\* ------------------------------------------------------------------ actions
\* A delivery attempt of the message fails: the worker enters
\* ReturnMail(event, e) and the requester goes on to read event.Result.
Call(e, c) ==
    /\ pc \in {"idle", "returned"}
    /\ requester = "idle"
    /\ place \in {"new", "delayed", "failure"}
    /\ pc' = "classify"
    /\ err' = e
    /\ Client' = c
    /\ resets' = 0
    /\ pending' = <<>>
    /\ sent' = <<>>
    /\ requester' = "dispatched"
    /\ place' = "attempt"
    /\ entryError' = Error
    /\ UNCHANGED <<Error, BindingType, msg, timeout, timeoutOrig, inits, otherVars>>

\* a failed attempt with an error of Spec's texts, or with a nil error
Errors(texts) == {<<t>> : t \in texts}

ReturnMail == \E e \in Errors(Texts(ErrChars, MaxErrLen)) \cup {Nil}, c \in Clients : Call(e, c)

\* a failed attempt with an error of FairSpec's texts, or with a nil error
ReturnMailFair == \E e \in Errors(Texts(ErrChars, MaxFairLen)) \cup {Nil}, c \in Clients : Call(e, c)

\* a failed first attempt with an error of ClassifySpec's texts
ReturnMailText ==
    /\ place = "new"
    /\ \E e \in Errors(Texts(TextChars, MaxTextLen)), c \in Clients : Call(e, c)

\* Classify moving the message one tier forward as well
ClassifyAdvancing ==
    /\ pc = "classify"
    /\ Error' = AttachError(Error, err)
    /\ BindingType' = IF BindingType = NotSendDelayedBinding THEN BindingType
                      ELSE NextBinding(BindingType)
    /\ pc' = "reset"
    /\ UNCHANGED <<err, Client, resets, pending, sent, requester,
                   place, entryError, msg, timeout, timeoutOrig, inits, otherVars>>

\* lines 141-153
Classify ==
    /\ pc = "classify"
    /\ Error' = AttachError(Error, err)
    /\ pc' = "reset"
    /\ UNCHANGED <<err, Client, BindingType, resets, pending, sent, requester,
                   place, entryError, msg, timeout, timeoutOrig, inits, otherVars>>

\* Reset going on to the publish without the call of Worker.Reset
ResetSkipped ==
    /\ pc = "reset"
    /\ pc' = "verdict"
    /\ UNCHANGED <<err, Client, Error, BindingType, resets, pending, sent, requester,
                   place, entryError, msg, timeout, timeoutOrig, inits, otherVars>>

\* lines 155-161
Reset ==
    /\ pc = "reset"
    /\ resets' = IF HasWorker(Client) THEN resets + 1 ELSE resets
    /\ pc' = "verdict"
    /\ UNCHANGED <<err, Client, Error, BindingType, pending, sent, requester,
                   place, entryError, msg, timeout, timeoutOrig, inits, otherVars>>

\* line 164: the branch on event.Message.Error
Verdict ==
    /\ pc = "verdict"
    /\ pending' = Verdicts(Error)
    /\ pc' = "send"
    /\ UNCHANGED <<err, Client, Error, BindingType, resets, sent, requester,
                   place, entryError, msg, timeout, timeoutOrig, inits, otherVars>>

\* the requester reaches its receive on event.Result
Wait ==
    /\ requester = "dispatched"
    /\ requester' = "waiting"
    /\ UNCHANGED <<pc, err, Client, Error, BindingType, resets, pending, sent,
                   place, entryError, msg, timeout, timeoutOrig, inits, otherVars>>

\* Publish on a buffered event.Result: the send completes without a receiver
PublishBuffered ==
    /\ pc = "send"
    /\ pending # <<>>
    /\ sent' = Append(sent, Head(pending))
    /\ pending' = Tail(pending)
    /\ requester' = IF requester = "waiting" THEN "received" ELSE requester
    /\ UNCHANGED <<pc, err, Client, Error, BindingType, resets,
                   place, entryError, msg, timeout, timeoutOrig, inits, otherVars>>

\* lines 165 / 167: the send on the unbuffered event.Result meets the receive
Publish ==
    /\ pc = "send"
    /\ pending # <<>>
    /\ requester = "waiting"
    /\ sent' = Append(sent, Head(pending))
    /\ pending' = Tail(pending)
    /\ requester' = "received"
    /\ UNCHANGED <<pc, err, Client, Error, BindingType, resets,
                   place, entryError, msg, timeout, timeoutOrig, inits, otherVars>>

\* line 169
Return ==
    /\ pc = "send"
    /\ pending = <<>>
    /\ pc' = "returned"
    /\ UNCHANGED <<err, Client, Error, BindingType, resets, pending, sent,
                   requester, place, entryError, msg, timeout, timeoutOrig, inits, otherVars>>

\* retry-with-delay below NotSend: one tier forward, requeued
Requeue ==
    /\ requester = "received"
    /\ sent[1] = DelaySendEventResult
    /\ BindingType # NotSendDelayedBinding
    /\ BindingType' = NextBinding(BindingType)
    /\ place' = "delayed"
    /\ requester' = "idle"
    /\ UNCHANGED <<pc, err, Client, Error, resets, pending, sent,
                   entryError, msg, timeout, timeoutOrig, inits, otherVars>>

\* retry-with-delay at NotSend: handed to the dead-letter path
DeadLetter ==
    /\ requester = "received"
    /\ sent[1] = DelaySendEventResult
    /\ BindingType = NotSendDelayedBinding
    /\ place' = "dead"
    /\ requester' = "idle"
    /\ UNCHANGED <<pc, err, Client, Error, BindingType, resets, pending, sent,
                   entryError, msg, timeout, timeoutOrig, inits, otherVars>>

\* hard-error: routed to the error path, tier unchanged
RouteError ==
    /\ requester = "received"
    /\ sent[1] = ErrorSendEventResult
    /\ place' = "failure"
    /\ requester' = "idle"
    /\ UNCHANGED <<pc, err, Client, Error, BindingType, resets, pending, sent,
                   entryError, msg, timeout, timeoutOrig, inits, otherVars>>

Worker == Classify \/ Reset \/ Verdict \/ Publish \/ Return
Requester == Wait \/ Publish \/ Requeue \/ DeadLetter \/ RouteError

Next ==
    \/ ReturnMail
    \/ Classify
    \/ Reset
    \/ Verdict
    \/ Wait
    \/ Publish
    \/ Return
    \/ Requeue
    \/ DeadLetter
    \/ RouteError

Spec == Init /\ [][Next]_vars

NextFair ==
    \/ ReturnMailFair
    \/ Classify
    \/ Reset
    \/ Verdict
    \/ Wait
    \/ Publish
    \/ Return
    \/ Requeue
    \/ DeadLetter
    \/ RouteError

\* the worker runs on inside ReturnMail and the requester goes on to its
\* receive and to the handling of the verdict; no new attempt is forced
FairSpec == Init /\ [][NextFair]_vars /\ WF_vars(Worker) /\ WF_vars(Requester)

NextText ==
    \/ ReturnMailText
    \/ Classify
    \/ Reset
    \/ Verdict
    \/ Wait
    \/ Publish
    \/ Return

ClassifySpec == Init /\ [][NextText]_vars

\* ------------------------------------------------------------ Timeout.Init
\* configured values of one field: unset, negative, and two set values of
\* which one equals a default
DurationInputs == {0, 0 - Millisecond, Second, 5 * Minute}

TimeoutConfigured ==
    /\ MailInit
    /\ timeout \in [TimeoutFields -> DurationInputs]
    /\ timeoutOrig = timeout
    /\ inits = 0

\* t.Init()
InitTimeout ==
    /\ inits < MaxInits
    /\ timeout' = TimeoutInit(timeout)
    /\ inits' = inits + 1
    /\ UNCHANGED <<timeoutOrig, mailVars>>

TimeoutSpec == TimeoutConfigured /\ [][InitTimeout]_vars

\* ---------------------------------------------------- getHostnameFromEmail
AddrPrefix == <<"a", "@", "a">>

\* every address up to MaxAddrLen, and the addresses "a@a..." with every
\* tail up to MaxTailLen
AddressInputs ==
    Texts(AddrChars, MaxAddrLen) \cup {AddrPrefix \o t : t \in Texts(AddrChars, MaxTailLen)}

AddressGiven ==
    /\ EventInit
    /\ msg = QueuedMessage
    /\ msgOrig = QueuedMessage
    /\ msgInits = 1
    /\ email \in AddressInputs
    /\ lookup = <<>>
    /\ timeout = ZeroTimeout
    /\ timeoutOrig = ZeroTimeout
    /\ inits = 0

\* this.getHostnameFromEmail(email)
GetHostname ==
    /\ lookup = <<>>
    /\ lookup' = <<getHostnameFromEmail(email)>>
    /\ UNCHANGED <<pc, err, Client, Error, BindingType, resets, pending, sent,
                   requester, place, entryError, msg, msgOrig, msgInits, email,
                   events, timeout, timeoutOrig, inits>>

AddressSpec == AddressGiven /\ [][GetHostname]_vars

\* -------------------------------------------------------- MailMessage.Init
\* addresses of the messages of MessageSpec: valid ones and invalid ones of
\* each kind
SampleAddresses ==
    {<<>>,
     <<"a">>,
     <<"a", "@", "x">>,
     <<"a", "@", "x", ".", "c">>,
     <<"a", "@", "x", ".", "c", "o", "m">>,
     <<"b", "@", "y", ".", "o", "r", "g">>,
     <<"a", "@", "@", "x", ".", "c", "o", "m">>,
     <<"@", "x", ".", "c", "o", "m">>,
     <<"a", "@", ".", "c", "o", "m">>,
     <<"a", ".", "b", "@", "x", "-", "y", ".", "z", ".", "i", "n", "f", "o">>,
     <<"a", "@", "x", ".", "p", "h", "o", "t", "o">>,
     <<"a", "@", "x", ".", "5", "5">>,
     <<"a", " ", "@", "x", ".", "c", "o", "m">>}

MessageDecoded ==
    /\ EventInit
    /\ msg \in {RawMessage(e, r, <<"h", "i">>) : e \in SampleAddresses, r \in SampleAddresses}
    /\ msgOrig = msg
    /\ msgInits = 0
    /\ email = <<>>
    /\ lookup = <<>>
    /\ timeout = ZeroTimeout
    /\ timeoutOrig = ZeroTimeout
    /\ inits = 0

\* message.Init()
MessageInit ==
    /\ msgInits < MaxMessageInits
    /\ \E t1 \in 1..MaxNow, t2 \in 1..MaxNow :
            /\ t1 <= t2
            /\ msg' = InitMessage(msg, t1, t2)
    /\ msgInits' = msgInits + 1
    /\ UNCHANGED <<pc, err, Client, Error, BindingType, resets, pending, sent,
                   requester, place, entryError, msgOrig, email, lookup,
                   events, timeout, timeoutOrig, inits>>

MessageSpec == MessageDecoded /\ [][MessageInit]_vars

\* ------------------------------------------------- concurrent ReturnMail
\* EventOf with the event kept in a variable shared by all calls
EventOfShared(w) == "w1"

\* the event a call of worker w works on: the event argument it was given
EventOf(w) == w

scalarVars == <<pc, err, Client, Error, BindingType, resets, pending, sent,
                requester, place, entryError, msg, msgOrig, msgInits, email,
                lookup, timeout, timeoutOrig, inits>>

\* worker w enters ReturnMail(event, e) on its own event, once
WorkerCall(w, e, c) ==
    /\ events[w].pc = "idle"
    /\ events[w].requester = "idle"
    /\ events' = [events EXCEPT ![w] =
            [@ EXCEPT !.pc = "classify", !.err = e, !.Client = c, !.resets = 0,
                      !.pending = <<>>, !.sent = <<>>, !.requester = "dispatched",
                      !.entryError = events[w].Error]]
    /\ UNCHANGED scalarVars

WorkerReturnMail(w) ==
    \E e \in Errors(Texts(ErrChars, MaxConcLen)) \cup {Nil}, c \in Clients : WorkerCall(w, e, c)

\* lines 141-153 in worker w
WorkerClassify(w) ==
    /\ events[w].pc = "classify"
    /\ events' = [events EXCEPT
            ![EventOf(w)].Error = AttachError(events[EventOf(w)].Error, events[w].err),
            ![w].pc = "reset"]
    /\ UNCHANGED scalarVars

\* lines 155-161 in worker w
WorkerReset(w) ==
    /\ events[w].pc = "reset"
    /\ events' = [events EXCEPT
            ![EventOf(w)].resets = IF HasWorker(events[EventOf(w)].Client) THEN @ + 1 ELSE @,
            ![w].pc = "verdict"]
    /\ UNCHANGED scalarVars

\* line 164 in worker w
WorkerVerdict(w) ==
    /\ events[w].pc = "verdict"
    /\ events' = [events EXCEPT
            ![w].pending = Verdicts(events[EventOf(w)].Error),
            ![w].pc = "send"]
    /\ UNCHANGED scalarVars

\* the requester of worker w's event reaches its receive
WorkerWait(w) ==
    /\ events[w].requester = "dispatched"
    /\ events' = [events EXCEPT ![w].requester = "waiting"]
    /\ UNCHANGED scalarVars

\* lines 165 / 167 in worker w: the send meets the receive on the event's Result
WorkerPublish(w) ==
    /\ events[w].pc = "send"
    /\ events[w].pending # <<>>
    /\ events[EventOf(w)].requester = "waiting"
    /\ events' = [events EXCEPT
            ![EventOf(w)].sent = Append(@, Head(events[w].pending)),
            ![EventOf(w)].requester = "received",
            ![w].pending = Tail(@)]
    /\ UNCHANGED scalarVars

\* line 169 in worker w
WorkerReturn(w) ==
    /\ events[w].pc = "send"
    /\ events[w].pending = <<>>
    /\ events' = [events EXCEPT ![w].pc = "returned"]
    /\ UNCHANGED scalarVars

NextConcurrent ==
    \E w \in Workers :
        \/ WorkerReturnMail(w)
        \/ WorkerClassify(w)
        \/ WorkerReset(w)
        \/ WorkerVerdict(w)
        \/ WorkerWait(w)
        \/ WorkerPublish(w)
        \/ WorkerReturn(w)

\* every worker holds an event of its own, its message fresh or carrying the
\* error of an earlier attempt
ConcurrentInit ==
    /\ CallInit
    /\ events \in [Workers -> {IdleEvent, CarriedEvent}]
    /\ msg = QueuedMessage
    /\ msgOrig = QueuedMessage
    /\ msgInits = 1
    /\ email = <<>>
    /\ lookup = <<>>
    /\ timeout = ZeroTimeout
    /\ timeoutOrig = ZeroTimeout
    /\ inits = 0

ConcurrentSpec == ConcurrentInit /\ [][NextConcurrent]_vars

\* ================================================================== claims
\* -------------------------------------------- the notions the claims use
Min(S) == CHOOSE x \in S : \A y \in S : x <= y
Max(S) == CHOOSE x \in S : \A y \in S : x >= y

Whitespace == {Space, Tab, Newline}

\* the text before the first space character, the whole text without one
LeadingToken(text) ==
    LET spaces == {i \in 1..Len(text) : text[i] = Space}
    IN  IF spaces = {} THEN text ELSE SubSeq(text, 1, Min(spaces) - 1)

\* tok without its leading and trailing white space
Stripped(tok) ==
    LET keep == {i \in 1..Len(tok) : tok[i] \notin Whitespace}
    IN  IF keep = {} THEN <<>> ELSE SubSeq(tok, Min(keep), Max(keep))

\* the first maximal run of characters that are not white space
FirstField(text) ==
    LET keep == {i \in 1..Len(text) : text[i] \notin Whitespace}
    IN  IF keep = {} THEN <<>>
        ELSE LET a == Min(keep)
                 b == Max({j \in a..Len(text) : \A k \in a..j : k \in keep})
             IN  SubSeq(text, a, b)

DecimalValue == ("0" :> 0) @@ ("5" :> 5)

IsInteger(tok) == tok # <<>> /\ \A i \in 1..Len(tok) : tok[i] \in DOMAIN DecimalValue

RECURSIVE PositionalSum(_, _)
PositionalSum(tok, i) ==
    IF i > Len(tok) THEN 0
    ELSE DecimalValue[tok[i]] * 10 ^ (Len(tok) - i) + PositionalSum(tok, i + 1)

IntegerValue(tok) == PositionalSum(tok, 1)

\* the text has a leading code as ReturnMail reads it
Classifiable(text) == IsInteger(Stripped(LeadingToken(text)))

\* the call has passed its classification block
Classified == pc \in {"reset", "verdict", "send", "returned"}

\* the call has passed its reset block
ResetDone == pc \in {"verdict", "send", "returned"}

\* the verdicts of the running call, delivered or about to be sent
Published == sent \o pending

\* ------------------------------------------------------------------- C1
\* C1: every ReturnMail call sends exactly one verdict on event.Result: a
\* call never has more than one send, and a completed call has delivered one.
C1_ExactlyOneVerdict ==
    /\ Len(sent) + Len(pending) <= 1
    /\ (pc = "returned" => Len(sent) = 1)

\* a completed call with an empty error text and no session, one verdict sent
C1_Witness ==
    /\ pc = "returned"
    /\ err = <<<<>>>>
    /\ Client = "nilClient"
    /\ Len(sent) = 1

\* ------------------------------------------------------------------- C2
\* C2: after any sequence of ReturnMail calls on a message, Message.Error is
\* set if and only if the most recent call had a non-nil error with a
\* parseable leading integer.
C2_ErrorIffLastCallClassified ==
    Classified => (Error # Nil <=> (err # Nil /\ Classifiable(err[1])))

\* ------------------------------------------------------------------- C3
\* C3: a call with an error without a leading code publishes
\* DelaySendEventResult, a call with an error with a leading code publishes
\* ErrorSendEventResult, in every message state.
C3_VerdictFollowsText ==
    err # Nil =>
        \A i \in 1..Len(Published) :
            Published[i] = IF Classifiable(err[1])
                           THEN ErrorSendEventResult
                           ELSE DelaySendEventResult

\* ------------------------------------------------------------------- C4
\* C4: the published verdict is ErrorSendEventResult exactly when
\* Message.Error is non-nil and DelaySendEventResult exactly when it is nil,
\* at the publish and when the requester has received it.
C4_VerdictMatchesError ==
    \A i \in 1..Len(Published) :
        /\ Published[i] = ErrorSendEventResult <=> Error # Nil
        /\ Published[i] = DelaySendEventResult <=> Error = Nil

\* the requester holds hard-error for a call with a nil error on a message
\* that carried an error
C4_Witness ==
    /\ requester = "received"
    /\ sent = <<ErrorSendEventResult>>
    /\ err = Nil
    /\ Error # Nil

\* ------------------------------------------------------------------- C5
\* C5: with Client and Worker present Reset is called exactly once, for a
\* nil, a classified and an unclassified error; without them it is never
\* called and the verdict is still published.
C5_ResetOncePerSession ==
    /\ resets <= 1
    /\ (ResetDone => resets = IF Client = "worker" THEN 1 ELSE 0)
    /\ (pc = "returned" /\ Client # "worker" => resets = 0 /\ Len(sent) = 1)

\* a completed call with a session and an unclassified error, one Reset
C5_Witness ==
    /\ pc = "returned"
    /\ Client = "worker"
    /\ err = <<<<"a">>>>
    /\ resets = 1

\* ------------------------------------------------------------------- C6
\* C6 as claimed: the error is classified with code n exactly when the first
\* white-space-delimited token of the text parses as n, and the MailError
\* then holds the full text and n.
C6_FirstFieldClassified ==
    Classified /\ err # Nil =>
        LET tok == FirstField(err[1])
        IN  IF IsInteger(tok)
            THEN Error = <<[Message |-> err[1], Code |-> IntegerValue(tok)]>>
            ELSE Error = entryError

\* C6 amended: the error is classified with code n exactly when the text
\* before its first space character (the whole text without one), with
\* leading and trailing white space trimmed, parses as n; the MailError then
\* holds the full text and n.
C6_LeadingTokenClassified ==
    Classified /\ err # Nil =>
        LET tok == Stripped(LeadingToken(err[1]))
        IN  IF IsInteger(tok)
            THEN Error = <<[Message |-> err[1], Code |-> IntegerValue(tok)]>>
            ELSE Error = entryError

\* the text "50", newline, "a" is classified with code 50 and its full text
C6_Witness ==
    /\ pc = "returned"
    /\ Len(err) = 1
    /\ err[1] = <<"5", "0", Newline>>
    /\ Error = <<[Message |-> <<"5", "0", Newline>>, Code |-> 50]>>

\* ------------------------------------------------------------------- C7
\* C7: with an empty error text or one whose first token is no integer the
\* call assigns nothing to Message.Error, and goes on to the reset and to
\* the publish of one verdict.
C7_MalformedTextAbsorbed ==
    err # Nil /\ ~Classifiable(err[1]) =>
        /\ pc \in {"classify", "reset", "verdict", "send", "returned"}
        /\ (Classified => Error = entryError)
        /\ (ResetDone => resets = IF Client = "worker" THEN 1 ELSE 0)
        /\ (pc = "returned" => Len(sent) = 1)

\* a completed call with an empty text on a message that carried an error
C7_Witness ==
    /\ pc = "returned"
    /\ err = <<<<>>>>
    /\ entryError # Nil
    /\ Error = entryError
    /\ Client = "worker"
    /\ resets = 1
    /\ Len(sent) = 1

\* ------------------------------------------------------------------- C8
\* C8: with the requester going on to receive on event.Result, every call
\* of ReturnMail completes and the requester has received exactly one
\* verdict.
C8_CallCompletes ==
    (pc = "classify") ~> (pc = "returned" /\ Len(sent) = 1)

\* a call with a session that has returned, its one verdict with the requester
C8_Witness ==
    /\ pc = "returned"
    /\ requester = "received"
    /\ sent = <<ErrorSendEventResult>>
    /\ pending = <<>>
    /\ resets = 1

\* ------------------------------------------------------------------- C9
\* C9: on a retry-with-delay verdict BindingType moves from a non-terminal
\* tier exactly one step forward in the order Unknown, Second, ThirtySecond,
\* Minute, FiveMinutes, TenMinutes, TwentyMinutes, ThirtyMinutes,
\* FortyMinutes, FiftyMinutes, Hour, SixHours, Day, NotSend; it changes in no
\* other step and never to Unknown; at NotSend it stays and the message is
\* not requeued.
LadderOrder ==
    <<UnknownDelayedBinding, SecondDelayedBinding, ThirtySecondDelayedBinding,
      MinuteDelayedBinding, FiveMinutesDelayedBinding, TenMinutesDelayedBinding,
      TwentyMinutesDelayedBinding, ThirtyMinutesDelayedBinding,
      FortyMinutesDelayedBinding, FiftyMinutesDelayedBinding,
      HourDelayedBinding, SixHoursDelayedBinding, DayDelayedBinding,
      NotSendDelayedBinding>>

DelayHandled ==
    /\ requester = "received"
    /\ sent = <<DelaySendEventResult>>
    /\ requester' = "idle"

C9_LadderStep ==
    [][/\ DelayHandled /\ BindingType # NotSendDelayedBinding =>
            /\ \E i \in 1..(Len(LadderOrder) - 1) :
                    BindingType = LadderOrder[i] /\ BindingType' = LadderOrder[i + 1]
            /\ place' = "delayed"
       /\ DelayHandled /\ BindingType = NotSendDelayedBinding =>
            BindingType' = BindingType /\ place' = "dead"
       /\ ~DelayHandled => BindingType' = BindingType
       /\ BindingType' # BindingType => BindingType' # UnknownDelayedBinding
       /\ place = "dead" => place' = "dead" /\ pc' # "classify"
      ]_vars

\* a message that left the ladder at NotSend
C9_Witness ==
    /\ BindingType = NotSendDelayedBinding
    /\ place = "dead"

\* ------------------------------------------------------------------ C10
\* C10: Timeout.Init replaces each zero field by its default (Sleep 1s,
\* Waiting 30s, Connection 5m, Hello 5m, Mail 5m, Rcpt 5m, Data 10m) and
\* leaves every other field as configured; afterwards no field is zero and
\* a second Init changes nothing.
DocumentedDefault ==
    [Sleep |-> 1000, Waiting |-> 30000, Connection |-> 300000, Hello |-> 300000,
     Mail |-> 300000, Rcpt |-> 300000, Data |-> 600000]

C10_InitDefaults ==
    /\ DOMAIN timeout = TimeoutFields
    /\ inits >= 1 =>
        \A f \in TimeoutFields :
            /\ timeout[f] # 0
            /\ timeout[f] = IF timeoutOrig[f] = 0 THEN DocumentedDefault[f]
                            ELSE timeoutOrig[f]
    /\ inits = 0 => timeout = timeoutOrig

\* Init called twice on a value with Data unset and Sleep configured
C10_Witness ==
    /\ inits = 2
    /\ timeoutOrig.Data = 0
    /\ timeout.Data = 600000
    /\ timeoutOrig.Sleep = 0 - 1
    /\ timeout.Sleep = 0 - 1

\* -------------------------------------------- the notions of C11 and C12
WordCharacters == Letters \cup {"0", "1", "2", "3", "4", "5", "6", "7", "8", "9", "_"}

\* a is local-part@domain, with one "@", a non-empty local part and a domain
\* whose last dot has something before it and a label of 2 to 4 characters
\* of labelChars after it
WellFormed(a, labelChars) ==
    LET ats == {i \in 1..Len(a) : a[i] = "@"}
    IN  /\ Cardinality(ats) = 1
        /\ LET i == Min(ats)
               dots == {k \in (i + 1)..Len(a) : a[k] = "."}
           IN  /\ i > 1
               /\ \A k \in 1..Len(a) : k # i => a[k] \in WordCharacters \cup {".", "-", "%", "+"}
               /\ \A k \in (i + 1)..Len(a) : a[k] \notin {"%", "+"}
               /\ dots # {}
               /\ LET d == Max(dots)
                  IN  /\ d > i + 1
                      /\ Len(a) - d \in 2..4
                      /\ \A k \in (d + 1)..Len(a) : a[k] \in labelChars

\* the text after the first "@"
DomainPart(a) ==
    LET ats == {i \in 1..Len(a) : a[i] = "@"}
    IN  IF ats = {} THEN <<>> ELSE SubSeq(a, Min(ats) + 1, Len(a))

\* the hostname of an address the address parser accepts, empty otherwise
HostnameOf(a) == IF WellFormed(a, WordCharacters) THEN DomainPart(a) ELSE <<>>

\* ------------------------------------------------------------------ C11
\* C11: MailMessage.Init sets each hostname on its own: HostnameFrom is the
\* domain of Envelope when Envelope passes the address parser and empty when
\* it does not, and likewise HostnameTo for Recipient, whatever the other
\* address is; Init always completes, with Id and CreatedDate set.
C11_HostnamesIndependent ==
    /\ msgInits >= 1 =>
        /\ msg.HostnameFrom = HostnameOf(msg.Envelope)
        /\ msg.HostnameTo = HostnameOf(msg.Recipient)
        /\ msg.Envelope = msgOrig.Envelope
        /\ msg.Recipient = msgOrig.Recipient
        /\ msg.Id # 0
        /\ msg.CreatedDate # 0
    /\ msgInits = 0 => msg = msgOrig

\* an initialised message with an invalid Envelope and a valid Recipient
C11_Witness ==
    /\ msgInits = 1
    /\ msg.Envelope = <<"a", "@", "@", "x", ".", "c", "o", "m">>
    /\ msg.HostnameFrom = <<>>
    /\ msg.Recipient = <<"b", "@", "y", ".", "o", "r", "g">>
    /\ msg.HostnameTo = <<"y", ".", "o", "r", "g">>

\* ------------------------------------------------------------------ C12
\* C12 as claimed: getHostnameFromEmail returns the domain exactly when the
\* address is local-part@domain with the domain ending in a top-level label
\* of 2 to 4 letters, and fails with the invalid-address error otherwise.
C12_LetterLabel ==
    lookup # <<>> =>
        IF WellFormed(email, Letters)
        THEN lookup[1] = [hostname |-> DomainPart(email), err |-> NoError]
        ELSE lookup[1] = [hostname |-> <<>>, err |-> InvalidAddress]

\* ------------------------------------------------------------------ C13
\* C13: by the time a verdict has been sent on event.Result the classified
\* error of this call is on the message and a present session has been
\* reset; the requester never holds a verdict of an event whose session is
\* unreset.
C13_ResetBeforeVerdict ==
    sent # <<>> =>
        /\ Client = "worker" => resets = 1
        /\ err # Nil /\ Classifiable(err[1]) =>
                Error # Nil /\ Error[1].Message = err[1]

\* the requester holds the verdict while the worker has not yet returned
C13_Witness ==
    /\ requester = "received"
    /\ pc = "send"
    /\ Client = "worker"
    /\ resets = 1
    /\ entryError = Nil
    /\ Error # Nil

\* ------------------------------------------------------------------ C14
\* C14: the send on event.Result is a rendezvous and the only blocking point:
\* the call returns only after its verdict was taken, a verdict is taken only
\* by a requester that is receiving, before the send the worker can always
\* step, and while nobody receives the worker stays at the send with the
\* classification and the reset done.
WorkerInCall == pc \in {"classify", "reset", "verdict", "send"}

C14_RendezvousPublish ==
    /\ [](pc \in {"classify", "reset", "verdict"} => ENABLED Worker)
    /\ [](pc = "send" /\ pending # <<>> /\ requester # "waiting" =>
            /\ ~ENABLED Worker
            /\ Error = entryError \/ (err # Nil /\ Classifiable(err[1]))
            /\ resets = IF Client = "worker" THEN 1 ELSE 0)
    /\ [][/\ pc = "send" /\ pc' = "returned" => Len(sent) = 1
          /\ sent' # sent /\ sent' # <<>> =>
                requester = "waiting" /\ requester' = "received" /\ pc = "send"
          /\ pc = "send" /\ pending # <<>> /\ requester' # "received" =>
                pc' = "send" /\ pending' = pending
         ]_vars

\* the worker blocked at the send, the requester not receiving
C14_Witness ==
    /\ pc = "send"
    /\ pending = <<ErrorSendEventResult>>
    /\ requester = "dispatched"
    /\ Client = "worker"
    /\ resets = 1

\* ------------------------------------------------------------------ C15
\* C15: after the classification of an error with code c, Message.Error is
\* exactly {full text, c}, whatever it held before the call.
C15_ClassifiedOverwrites ==
    Classified /\ err # Nil /\ Classifiable(err[1]) =>
        Error = <<[Message |-> err[1],
                   Code |-> IntegerValue(Stripped(LeadingToken(err[1])))]>>

\* a completed call that replaced the error of an earlier attempt
C15_Witness ==
    /\ pc = "returned"
    /\ entryError # Nil
    /\ Error # entryError
    /\ Error # Nil

\* ------------------------------------------------------------------ C16
\* C16: no step of ReturnMail changes BindingType, Envelope, Recipient, Body,
\* HostnameFrom, HostnameTo, Id or CreatedDate, and none moves the message to
\* a queue.
C16_OnlyErrorWritten ==
    [][WorkerInCall /\ (pc' # pc \/ sent' # sent \/ Error' # Error) =>
            /\ BindingType' = BindingType
            /\ msg' = msg
            /\ place' = place
      ]_vars

\* a completed call with the hard-error verdict on a message at a later tier
C16_Witness ==
    /\ pc = "returned"
    /\ sent = <<ErrorSendEventResult>>
    /\ place = "attempt"
    /\ BindingType = SecondDelayedBinding
    /\ msg = QueuedMessage

\* ------------------------------------------------------------------ C17
\* C17: Message.Error never goes from non-nil back to nil, and a call on a
\* message that carried an error publishes ErrorSendEventResult whatever
\* error it is given.
C17_ErrorSticks ==
    /\ [][Error # Nil => Error' # Nil]_vars
    /\ [](entryError # Nil =>
            \A i \in 1..Len(Published) : Published[i] = ErrorSendEventResult)

\* hard-error published for an unclassified text on a message with an error
C17_Witness ==
    /\ entryError # Nil
    /\ err = <<<<"a">>>>
    /\ sent = <<ErrorSendEventResult>>

\* ------------------------------------------------------------------ C18
\* C18: a call with a nil error leaves Message.Error as it was, resets a
\* present session once, and publishes DelaySendEventResult when the message
\* carried no error and ErrorSendEventResult when it carried one.
C18_NilErrorKeepsState ==
    err = Nil /\ pc # "idle" =>
        /\ Error = entryError
        /\ ResetDone => resets = IF Client = "worker" THEN 1 ELSE 0
        /\ pc = "returned" => Len(sent) = 1
        /\ \A i \in 1..Len(Published) :
                Published[i] = IF entryError = Nil THEN DelaySendEventResult
                               ELSE ErrorSendEventResult

\* a completed call with a nil error and a session on a message with an error
C18_Witness ==
    /\ pc = "returned"
    /\ err = Nil
    /\ entryError # Nil
    /\ Client = "worker"
    /\ resets = 1
    /\ sent = <<ErrorSendEventResult>>

\* ------------------------------------------------------------------ C19
\* C19: with workers running ReturnMail at the same time on events of their
\* own, every event's Result gets exactly one verdict and it is the verdict
\* of that event's message, every message's Error is the one its own call
\* left, every session is reset by its own call only, and a step of one
\* worker leaves the other events as they were.
OwnOutcome(ev) ==
    LET published == ev.sent \o ev.pending
        classified == ev.pc \in {"reset", "verdict", "send", "returned"}
        resetDone == ev.pc \in {"verdict", "send", "returned"}
    IN  /\ Len(published) <= 1
        /\ ev.pc = "returned" => Len(ev.sent) = 1
        /\ \A i \in 1..Len(published) :
                published[i] = IF ev.Error = Nil THEN DelaySendEventResult
                               ELSE ErrorSendEventResult
        /\ ev.Error = IF classified /\ ev.err # Nil /\ Classifiable(ev.err[1])
                      THEN <<[Message |-> ev.err[1],
                              Code |-> IntegerValue(Stripped(LeadingToken(ev.err[1])))]>>
                      ELSE ev.entryError
        /\ ev.resets = IF resetDone /\ ev.Client = "worker" THEN 1 ELSE 0

C19_NoInterference ==
    /\ [](\A w \in Workers : OwnOutcome(events[w]))
    /\ [][\A w \in Workers :
            events'[w] # events[w] => \A v \in Workers \ {w} : events'[v] = events[v]
         ]_vars

\* one worker blocked at its send of hard-error for a nil error on a message
\* that carried an error, the other returned after a reset and the delivery
\* of retry-with-delay
C19_Witness ==
    /\ events["w1"].pc = "send"
    /\ events["w1"].err = Nil
    /\ events["w1"].pending = <<ErrorSendEventResult>>
    /\ events["w1"].Client = "nilWorker"
    /\ events["w1"].resets = 0
    /\ events["w2"].pc = "returned"
    /\ events["w2"].sent = <<DelaySendEventResult>>
    /\ events["w2"].Client = "worker"
    /\ events["w2"].resets = 1

====
